---- MODULE Spec2Model ----
(***************************************************************************)
(* Model of the interactive console of the local judge, src/dmoj/cli.py:   *)
(* the session loop of main(), the command handlers, the submission list   *)
(* graded_submissions and the counter submission_id_counter.               *)
(*                                                                         *)
(* Text that the code takes apart (file names, language ids) is a sequence *)
(* of one-character strings; text it only stores or compares (problem ids, *)
(* source text) is a string.  An optional value (Python None) is the empty *)
(* sequence <<>>, a present value v is <<v>>.                              *)
(***************************************************************************)
EXTENDS Integers, Sequences, FiniteSets, TLC

VARIABLES
    graded_submissions,     \* the list of <<problem, language, source, time
                            \* limit, memory limit>> tuples, oldest first
    submission_id_counter,  \* the module-level counter
    pc,                     \* "prompt": main() is in its while loop,
                            \* "exited": it has left the try statement
    murdered,               \* how often judge.murder() has been called
    graded_ids,             \* the id passed to judge.begin_grading with each
                            \* record of graded_submissions, in list order
    last                    \* the last line read: the command, its number,
                            \* how it ended and what it gave the judge

vars == <<graded_submissions, submission_id_counter, pc, murdered, graded_ids, last>>

(* ------------------------------- bounds -------------------------------- *)

\* The longest submission list explored.
MaxLedger == 2

\* The largest value of submission_id_counter explored.
MaxCounter == 3

(* --------------------------- program constants ------------------------- *)

\* default=2.0 of submit's --time-limit
DefaultTimeLimit == 2

\* default=65536 of submit's --memory-limit
DefaultMemoryLimit == 65536

\* default=' ' of submit's --language-id
BlankLanguage == <<" ">>

PY2 == <<"P", "Y", "2">>
CPP14 == <<"C", "P", "P", "1", "4">>
JAVA9 == <<"J", "A", "V", "A", "9">>

(* ---------------------------- collaborators ---------------------------- *)

\* judgeenv.get_supported_problems(): the names of the problem catalog.
supported_problems == {"AMOEBA", "APLUSB"}

\* dmoj.executors.executors: the language ids that have an executor.
executors == {PY2, CPP14, JAVA9}

\* judgeenv.startup_warnings after main() has printed the warnings: main()
\* deletes the attribute before the first prompt.
startup_warnings_deleted == TRUE

(* ------------------------------ text helpers --------------------------- *)

None == <<>>

Some(v) == <<v>>

\* str.upper() on one character: a lower-case letter becomes its capital,
\* every other character stays.
UpperChar(c) ==
    CASE c = "a" -> "A" [] c = "b" -> "B" [] c = "c" -> "C" [] c = "d" -> "D"
      [] c = "e" -> "E" [] c = "f" -> "F" [] c = "g" -> "G" [] c = "h" -> "H"
      [] c = "i" -> "I" [] c = "j" -> "J" [] c = "k" -> "K" [] c = "l" -> "L"
      [] c = "m" -> "M" [] c = "n" -> "N" [] c = "o" -> "O" [] c = "p" -> "P"
      [] c = "q" -> "Q" [] c = "r" -> "R" [] c = "s" -> "S" [] c = "t" -> "T"
      [] c = "u" -> "U" [] c = "v" -> "V" [] c = "w" -> "W" [] c = "x" -> "X"
      [] c = "y" -> "Y" [] c = "z" -> "Z"
      [] OTHER -> c

\* str.upper()
Upper(s) == [i \in 1..Len(s) |-> UpperChar(s[i])]

\* str.split('.'): the pieces between the dots, empty pieces kept.
RECURSIVE SplitDot(_)
SplitDot(s) ==
    IF \A i \in 1..Len(s) : s[i] # "."
    THEN <<s>>
    ELSE LET d == CHOOSE i \in 1..Len(s) :
                      s[i] = "." /\ \A j \in 1..(i - 1) : s[j] # "."
         IN  <<SubSeq(s, 1, d - 1)>> \o SplitDot(SubSeq(s, d + 1, Len(s)))

\* Python's `opt or base` for an optional number: None and 0 are false.
OrNumber(opt, base) == IF opt # None /\ opt[1] # 0 THEN opt[1] ELSE base

\* Python's `opt or base` for an optional text: None and '' are false.
OrText(opt, base) == IF opt # None /\ opt[1] # "" THEN opt[1] ELSE base

\* Python's `opt or base` for an optional language id: None and '' are false.
OrLanguage(opt, base) == IF opt # None /\ opt[1] # <<>> THEN opt[1] ELSE base

\* graded_submissions[i] for a 0-based Python index i: a negative index counts
\* from the end, an index outside -len..len-1 raises IndexError (None here).
PyIndex(list, i) ==
    IF 0 <= i /\ i < Len(list) THEN Some(list[i + 1])
    ELSE IF i < 0 /\ -Len(list) <= i THEN Some(list[Len(list) + i + 1])
    ELSE None

\* list[:n] for n > 0
PyPrefix(list, n) == SubSeq(list, 1, IF n < Len(list) THEN n ELSE Len(list))

(* ------------------------------- inputs -------------------------------- *)

SolPy == <<"s", "o", "l", ".", "p", "y">>
ATxt == <<"a", ".", "t", "x", "t">>
NoExtension == <<"s", "o", "l">>
TwoDots == <<"a", ".", "p", ".", "y">>
TrailingDot == <<"a", ".">>
XX == <<"X", "X">>

\* submit's parsed arguments:
\* <<problem_id, source_file, language_id, time_limit, memory_limit>>
SubmitArgs ==
    { <<"AMOEBA", Some(SolPy), BlankLanguage, DefaultTimeLimit, DefaultMemoryLimit>>,
      <<"AMOEBA", Some(ATxt), BlankLanguage, DefaultTimeLimit, DefaultMemoryLimit>>,
      <<"AMOEBA", None, PY2, DefaultTimeLimit, DefaultMemoryLimit>>,
      <<"AMOEBA", Some(SolPy), PY2, DefaultTimeLimit, DefaultMemoryLimit>>,
      <<"ABC", Some(SolPy), BlankLanguage, DefaultTimeLimit, DefaultMemoryLimit>>,
      <<"AMOEBA", Some(SolPy), XX, DefaultTimeLimit, DefaultMemoryLimit>>,
      <<"AMOEBA", Some(SolPy), PY2, 0, DefaultMemoryLimit>>,
      <<"AMOEBA", Some(SolPy), PY2, DefaultTimeLimit, -1>>,
      <<"AMOEBA", None, BlankLanguage, DefaultTimeLimit, DefaultMemoryLimit>>,
      <<"AMOEBA", Some(NoExtension), BlankLanguage, DefaultTimeLimit, DefaultMemoryLimit>>,
      <<"AMOEBA", Some(TwoDots), BlankLanguage, DefaultTimeLimit, DefaultMemoryLimit>>,
      <<"AMOEBA", Some(TrailingDot), BlankLanguage, DefaultTimeLimit, DefaultMemoryLimit>> }

MCpp == <<"m", ".", "c", "p", "p">>
MJava == <<"M", ".", "j", "a", "v", "a">>
SolPyCapital == <<"s", "o", "l", ".", "P", "Y">>

\* submit's parsed arguments for sessions that leave the language to the
\* file name: each extension of the table, one outside it, a capital one,
\* and limits that are not positive.
InferredArgs ==
    { <<"AMOEBA", Some(SolPy), BlankLanguage, DefaultTimeLimit, DefaultMemoryLimit>>,
      <<"AMOEBA", Some(MCpp), BlankLanguage, DefaultTimeLimit, DefaultMemoryLimit>>,
      <<"AMOEBA", Some(MJava), BlankLanguage, DefaultTimeLimit, DefaultMemoryLimit>>,
      <<"AMOEBA", Some(ATxt), BlankLanguage, DefaultTimeLimit, DefaultMemoryLimit>>,
      <<"AMOEBA", Some(SolPyCapital), BlankLanguage, DefaultTimeLimit, DefaultMemoryLimit>>,
      <<"AMOEBA", Some(SolPy), BlankLanguage, 0, DefaultMemoryLimit>>,
      <<"AMOEBA", Some(SolPy), BlankLanguage, DefaultTimeLimit, -1>>,
      <<"AMOEBA", Some(SolPy), BlankLanguage, 5, 1024>>,
      <<"AMOEBA", Some(SolPy), PY2, 0, DefaultMemoryLimit>>,
      <<"ABC", Some(SolPy), BlankLanguage, DefaultTimeLimit, DefaultMemoryLimit>>,
      <<"AMOEBA", Some(NoExtension), BlankLanguage, DefaultTimeLimit, DefaultMemoryLimit>>,
      <<"AMOEBA", None, BlankLanguage, DefaultTimeLimit, DefaultMemoryLimit>> }

\* The submission ids typed at the prompt: below, inside and above the list.
Ids == (-1)..(MaxLedger + 1)

\* resubmit's parsed overrides: <<problem, language, time_limit, memory_limit>>
Overrides ==
    { <<None, None, None, None>>,
      <<Some("APLUSB"), None, None, None>>,
      <<Some("ABC"), None, None, None>>,
      <<None, Some(XX), None, None>>,
      <<None, None, Some(5), None>>,
      <<None, None, Some(0), None>>,
      <<None, None, Some(-1), None>>,
      <<None, None, None, Some(0)>>,
      <<None, None, None, Some(-1)>> }

\* The text of a readable source file.
FileText == "print(1)"

\* What open(...).read() gives: the text, or None when it raises.
ReadResults == {Some(FileText), None}

\* What the operator does in the editor: "keep" saves the buffer as it is,
\* "edit" replaces it, "fail" is an editor that cannot be launched.
EditorModes == {"keep", "edit", "fail"}

\* The temporary file's content after subprocess.call(['nano', temp.name]),
\* or None when launching raises.
Editor(seed, mode) ==
    CASE mode = "keep" -> Some(seed)
      [] mode = "edit" -> Some("pass")
      [] OTHER -> None

\* submissions' --limit
Limits == {None} \cup {Some(n) : n \in (-1)..MaxLedger}

\* diff's and show's argument: <<"id", k>> when int() parses it, else
\* <<"path", r>> with r what reading the file gives.
Tokens == {<<"id", k>> : k \in Ids} \cup {<<"path", r>> : r \in ReadResults}

\* diff's second argument: the first submission, a readable and an
\* unreadable path.
SecondTokens == {<<"id", 1>>} \cup {<<"path", r>> : r \in ReadResults}

(* -------------------------- command results ---------------------------- *)

\* What one call of a command's execute(line) does: how it ends ("ok": it
\* returns after doing its work, "error": it prints a message and returns,
\* "parse": InvalidCommandException, "raised": another exception leaves it,
\* "exit": SystemExit), the submission list and the counter it leaves, the
\* request it passed to judge.begin_grading (None if it passed none), the
\* record its lookup of a submission id returned, the lines it listed, the
\* message it printed in red (None if it printed none) and what became of
\* the editor ("unused", "returned", "failed").
Result(outcome, list, counter, request, found, listing) ==
    [outcome |-> outcome, list |-> list, counter |-> counter,
     request |-> request, found |-> found, listing |-> listing,
     err |-> None, editor |-> "unused"]

\* print ansi_style('#ansi[%s](red|bold)' % err)
Printed(res, message) == [res EXCEPT !.err = Some(message)]

\* subprocess.call(['nano', temp.name]) returned, or raised.
Edited(res, how) == [res EXCEPT !.editor = how]

\* A command that ends without touching the list, the counter or the judge.
Untouched(outcome, found) ==
    Result(outcome, graded_submissions, submission_id_counter, None, found, <<>>)

\* The arguments of judge.begin_grading(id, problem, language, source,
\* time_limit, memory_limit, False, False, blocking=True).
Request(id, data) ==
    <<id, data[1], data[2], data[3], data[4], data[5], FALSE, FALSE>>

(* ------------------------------- submit -------------------------------- *)

\* LanguageOfExtension without the table: every extension is its own
\* language id.
LanguageOfExtensionNoTable(ext) == ext

\* The extension-to-language chain of SubmitCommand.execute, on the
\* upper-cased extension; <<>> when the extension is empty.
LanguageOfExtension(ext) ==
    IF ext = <<"P", "Y">> THEN PY2
    ELSE IF ext = <<"C", "P", "P">> THEN CPP14
    ELSE IF ext = <<"J", "A", "V", "A">> THEN JAVA9
    ELSE ext

\* The if/elif chain of SubmitCommand.execute that sets err and language_id:
\* [err: the message or None, raised: an exception left the chain,
\*  language_id: the language id after the chain].
SubmitValidation(args) ==
    LET problem_id == args[1]
        source_file == args[2]
        language_id == args[3]
        time_limit == args[4]
        memory_limit == args[5]
        Verdict(err, raised, lang) ==
            [err |-> err, raised |-> raised, language_id |-> lang]
    IN  IF problem_id \notin supported_problems
        THEN Verdict(Some("unknown problem"), FALSE, language_id)
        ELSE IF language_id = BlankLanguage
        THEN IF source_file # None
             THEN LET parts == SplitDot(source_file[1])
                  IN  IF Len(parts) # 2
                      \* the unpacking fails, ext stays None, ext.upper() raises
                      THEN Verdict(Some("invalid file"), TRUE, language_id)
                      ELSE LET ext == Upper(parts[2])
                           IN  IF ext # <<>>
                               THEN Verdict(None, FALSE, LanguageOfExtension(ext))
                               ELSE Verdict(Some("unknown language"), FALSE, language_id)
             ELSE Verdict(Some("no language is selected"), FALSE, language_id)
        ELSE IF language_id \notin executors
        THEN Verdict(Some("unknown language"), FALSE, language_id)
        ELSE IF time_limit <= 0
        THEN Verdict(Some("--time-limit must be >= 0"), FALSE, language_id)
        ELSE IF memory_limit <= 0
        THEN Verdict(Some("--memory-limit must be >= 0"), FALSE, language_id)
        ELSE Verdict(None, FALSE, language_id)

\* SubmitCommand.execute after parse_args: `read` is what reading the source
\* file gives, `mode` what happens in the editor.
SubmitExecute(args, read, mode) ==
    LET v == SubmitValidation(args)
        source_file == args[2]
        Accept(src) ==
            LET data == <<args[1], v.language_id, src, args[4], args[5]>>
                id == submission_id_counter + 1
            IN  Result("ok", Append(graded_submissions, data), id,
                       Some(Request(id, data)), None, <<>>)
    IN  IF v.raised THEN Untouched("raised", None)
        ELSE IF v.err # None THEN Printed(Untouched("error", None), v.err[1])
        ELSE IF source_file # None
        THEN IF read = None
             THEN Printed(Untouched("error", None), "str(io)")
             ELSE Accept(read[1])
        ELSE LET edited == Editor("", mode)
             IN  IF edited # None THEN Edited(Accept(edited[1]), "returned")
                 \* the handler reads judgeenv.startup_warnings
                 ELSE IF startup_warnings_deleted
                 THEN Edited(Untouched("raised", None), "failed")
                 \* src is unbound at line 250, after the increment of line 249
                 ELSE Edited(Result("raised", graded_submissions,
                                    submission_id_counter + 1, None, None, <<>>),
                             "failed")

(* ------------------------------ resubmit ------------------------------- *)

\* The if/elif chain of ResubmitCommand.execute: the message, or None.
ResubmitValidation(id, lang, tl, ml) ==
    IF id \notin supported_problems THEN Some("unknown problem")
    ELSE IF lang \notin executors THEN Some("unknown language")
    ELSE IF tl <= 0 THEN Some("--time-limit must be >= 0")
    ELSE IF ml <= 0 THEN Some("--memory-limit must be >= 0")
    ELSE None

\* ResubmitExecute with the overrides written into the base record as well.
ResubmitInPlace(k, o, mode) ==
    LET counter == submission_id_counter + 1
        base == PyIndex(graded_submissions, k - 1)
        Fail(outcome) ==
            Result(outcome, graded_submissions, counter, None, base, <<>>)
    IN  IF base = None THEN Printed(Fail("error"), "invalid submission")
        ELSE
        LET id == OrText(o[1], base[1][1])
            lang == OrLanguage(o[2], base[1][2])
            tl == OrNumber(o[3], base[1][4])
            ml == OrNumber(o[4], base[1][5])
            edited == Editor(base[1][3], mode)
            at == IF k >= 1 THEN k ELSE Len(graded_submissions) + k
            Accept(src) ==
                LET data == <<id, lang, src, tl, ml>>
                IN  Result("ok",
                           Append([graded_submissions EXCEPT ![at] = data], data),
                           counter, Some(Request(counter, data)), base, <<>>)
        IN  IF ResubmitValidation(id, lang, tl, ml) # None
            THEN Printed(Fail("error"), ResubmitValidation(id, lang, tl, ml)[1])
            ELSE IF edited # None THEN Edited(Accept(edited[1]), "returned")
            ELSE IF startup_warnings_deleted THEN Edited(Fail("raised"), "failed")
            ELSE Edited(Accept(base[1][3]), "failed")

\* ResubmitCommand.execute after parse_args, for `resubmit k` with the
\* overrides o = <<problem, language, time_limit, memory_limit>>.
ResubmitExecute(k, o, mode) ==
    LET counter == submission_id_counter + 1
        base == PyIndex(graded_submissions, k - 1)
        Fail(outcome) ==
            Result(outcome, graded_submissions, counter, None, base, <<>>)
    IN  IF base = None THEN Printed(Fail("error"), "invalid submission")
        ELSE
        LET id == OrText(o[1], base[1][1])
            lang == OrLanguage(o[2], base[1][2])
            tl == OrNumber(o[3], base[1][4])
            ml == OrNumber(o[4], base[1][5])
            edited == Editor(base[1][3], mode)
            Accept(src) ==
                LET data == <<id, lang, src, tl, ml>>
                IN  Result("ok", Append(graded_submissions, data), counter,
                           Some(Request(counter, data)), base, <<>>)
        IN  IF ResubmitValidation(id, lang, tl, ml) # None
            THEN Printed(Fail("error"), ResubmitValidation(id, lang, tl, ml)[1])
            ELSE IF edited # None THEN Edited(Accept(edited[1]), "returned")
            \* the handler reads judgeenv.startup_warnings
            ELSE IF startup_warnings_deleted THEN Edited(Fail("raised"), "failed")
            \* src keeps the base record's source
            ELSE Edited(Accept(base[1][3]), "failed")

(* ------------------------------- rejudge ------------------------------- *)

\* RejudgeExecute running resubmit's checks on the stored fields first.
RejudgeRevalidates(k) ==
    LET base == PyIndex(graded_submissions, k - 1)
    IN  IF base = None THEN Untouched("error", base)
        ELSE IF ResubmitValidation(base[1][1], base[1][2], base[1][4], base[1][5]) # None
        THEN Untouched("error", base)
        ELSE Result("ok", graded_submissions, submission_id_counter,
                    Some(Request(submission_id_counter, base[1])), base, <<>>)

\* RejudgeExecute taking a new id and appending the record again, as resubmit does.
RejudgeAppends(k) ==
    LET base == PyIndex(graded_submissions, k - 1)
        counter == submission_id_counter + 1
    IN  IF base = None
        THEN Result("error", graded_submissions, counter, None, base, <<>>)
        ELSE Result("ok", Append(graded_submissions, base[1]), counter,
                    Some(Request(counter, base[1])), base, <<>>)

\* RejudgeExecute forwarding the typed number k as the request's id.
RejudgeForwardsK(k) ==
    LET base == PyIndex(graded_submissions, k - 1)
    IN  IF base = None
        THEN Printed(Untouched("error", base), "invalid submission")
        ELSE Result("ok", graded_submissions, submission_id_counter,
                    Some(Request(k, base[1])), base, <<>>)

\* RejudgeCommand.execute after parse_args, for `rejudge k`.
RejudgeExecute(k) ==
    LET base == PyIndex(graded_submissions, k - 1)
    IN  IF base = None
        THEN Printed(Untouched("error", base), "invalid submission")
        ELSE Result("ok", graded_submissions, submission_id_counter,
                    Some(Request(submission_id_counter, base[1])), base, <<>>)

(* ----------------------------- submissions ----------------------------- *)

\* enumerate(list) with the printed fields: <<i + 1, problem, lang>> per entry.
Listing(list) == [i \in 1..Len(list) |-> <<i, list[i][1], list[i][2]>>]

\* ListSubmissionsCommand.execute after parse_args.
ListSubmissionsExecute(limit) ==
    IF limit # None /\ limit[1] <= 0
    THEN Printed(Untouched("error", None), "--limit must be >= 0")
    ELSE Result("ok", graded_submissions, submission_id_counter, None, None,
                Listing(IF limit = None \/ limit[1] = 0
                        THEN graded_submissions
                        ELSE PyPrefix(graded_submissions, limit[1])))

(* ----------------------------- diff and show --------------------------- *)

\* DifferenceCommand.get_data and ShowSubmissonIdOrFilename.get_data:
\* [src: the text or None, found: the record an id resolved to or None].
GetData(token) ==
    IF token[1] = "id"
    THEN LET base == PyIndex(graded_submissions, token[2] - 1)
         IN  [src |-> IF base = None THEN None ELSE Some(base[1][3]),
              found |-> base]
    ELSE [src |-> token[2], found |-> None]

\* DifferenceCommand.execute after parse_args: data1.splitlines() and
\* data2.splitlines() raise AttributeError on None.
DifferenceExecute(token1, token2) ==
    LET d1 == GetData(token1)
        d2 == GetData(token2)
    IN  IF d1.src = None \/ d2.src = None
        THEN Untouched("raised", d1.found)
        ELSE Untouched("ok", d1.found)

\* ShowSubmissonIdOrFilename.execute after parse_args: `guessed` is whether
\* guess_lexer_for_file finds a lexer for a path; pygments.highlight raises
\* on a lexer of None.
ShowExecute(token, guessed) ==
    LET d == GetData(token)
        lexer == IF token[1] = "id" THEN d.src # None
                 ELSE d.src # None /\ guessed
    IN  IF lexer THEN Untouched("ok", d.found) ELSE Untouched("raised", d.found)

(* ------------------------- problems, help, quit ------------------------ *)

\* ListProblemsCommand.execute after parse_args: `compiles` is whether
\* re.compile accepts the filter (None: no filter given).
ListProblemsExecute(limit, compiles) ==
    IF limit # None /\ limit[1] <= 0
    THEN Printed(Untouched("error", None), "--limit must be >= 0")
    ELSE IF compiles # None /\ ~compiles[1] THEN Untouched("raised", None)
    ELSE Untouched("ok", None)

\* HelpCommand.execute
HelpExecute == Untouched("ok", None)

\* QuitCommand.execute: sys.exit(0) raises SystemExit.
QuitExecute == Untouched("exit", None)

(* ---------------------------- the session loop ------------------------- *)

\* The names registered by main().
CommandNames ==
    {"problems", "submissions", "submit", "resubmit", "rejudge", "help",
     "quit", "diff", "show"}

\* AfterCommand with judge.murder() after the try statement instead of in
\* its finally clause: an exception that the except clause does not name
\* passes it by.
AfterCommandNoFinally(outcome) ==
    IF outcome \in {"ok", "error", "parse", "unrecognized"}
    THEN <<"prompt", murdered>>
    ELSE IF outcome = "interrupt"
    THEN <<"exited", murdered + 1>>
    ELSE <<"exited", murdered>>

\* AfterCommand without the `except InvalidCommandException` clause: the
\* exception of a failed parse leaves the loop like any other.
AfterCommandParseEscapes(outcome) ==
    IF outcome \in {"ok", "error", "unrecognized"}
    THEN <<"prompt", murdered>>
    ELSE <<"exited", murdered + 1>>

\* What the loop of main() does with the way a command ended: <<pc, murdered>>
\* after it.  A return and InvalidCommandException lead back to raw_input;
\* anything else leaves the while loop through the finally clause, which
\* calls judge.murder().
AfterCommand(outcome) ==
    IF outcome \in {"ok", "error", "parse", "unrecognized"}
    THEN <<"prompt", murdered>>
    ELSE <<"exited", murdered + 1>>

\* One pass of the while loop: the line names the command `name` with the
\* number `arg` (the submission id of resubmit, rejudge, diff and show, the
\* limit of submissions, None if there is none) and the other arguments
\* `given` (submit's arguments, resubmit's overrides, None otherwise), and
\* the command does `res`.
MainLoop(name, arg, given, res) ==
    /\ pc = "prompt"
    /\ Len(res.list) <= MaxLedger
    /\ res.counter <= MaxCounter
    /\ graded_submissions' = res.list
    /\ submission_id_counter' = res.counter
    /\ graded_ids' = IF Len(res.list) > Len(graded_submissions)
                     THEN Append(graded_ids, res.request[1][1])
                     ELSE graded_ids
    /\ last' = [name |-> name, arg |-> arg, given |-> given,
                outcome |-> res.outcome, request |-> res.request,
                found |-> res.found, listing |-> res.listing,
                err |-> res.err, editor |-> res.editor]
    /\ pc' = AfterCommand(res.outcome)[1]
    /\ murdered' = AfterCommand(res.outcome)[2]

Init ==
    /\ graded_submissions = <<>>
    /\ submission_id_counter = 0
    /\ pc = "prompt"
    /\ murdered = 0
    /\ graded_ids = <<>>
    /\ last = [name |-> "start", arg |-> None, given |-> None,
               outcome |-> "ok", request |-> None, found |-> None,
               listing |-> <<>>, err |-> None, editor |-> "unused"]

Submit ==
    \E args \in SubmitArgs, read \in ReadResults, mode \in {"edit", "fail"} :
        MainLoop("submit", None, Some(args), SubmitExecute(args, read, mode))

Resubmit ==
    \E k \in Ids, o \in Overrides, mode \in EditorModes :
        MainLoop("resubmit", Some(k), Some(o), ResubmitExecute(k, o, mode))

Rejudge ==
    \E k \in Ids : MainLoop("rejudge", Some(k), None, RejudgeExecute(k))

ListSubmissions ==
    \E limit \in Limits :
        MainLoop("submissions", limit, None, ListSubmissionsExecute(limit))

Difference ==
    \E token1 \in Tokens, token2 \in SecondTokens :
        MainLoop("diff", IF token1[1] = "id" THEN Some(token1[2]) ELSE None,
                 None, DifferenceExecute(token1, token2))

Show ==
    \E token \in Tokens, guessed \in BOOLEAN :
        MainLoop("show", IF token[1] = "id" THEN Some(token[2]) ELSE None,
                 None, ShowExecute(token, guessed))

ListProblems ==
    \E limit \in {None, Some(0), Some(1)}, compiles \in {None, Some(TRUE), Some(FALSE)} :
        MainLoop("problems", None, None, ListProblemsExecute(limit, compiles))

Help == MainLoop("help", None, None, HelpExecute)

Quit == MainLoop("quit", None, None, QuitExecute)

\* parse_args raises InvalidCommandException: a missing or ill-typed
\* argument, an unknown flag, -h.
ParseFailure ==
    \E name \in CommandNames : MainLoop(name, None, None, Untouched("parse", None))

\* line[0] is not in commands.
Unrecognized ==
    MainLoop("unrecognized", None, None, Untouched("unrecognized", None))

\* raw_input raises EOFError or KeyboardInterrupt.
EndOfInput == MainLoop("eof", None, None, Untouched("interrupt", None))

Next ==
    \/ Submit
    \/ Resubmit
    \/ Rejudge
    \/ ListSubmissions
    \/ Difference
    \/ Show
    \/ ListProblems
    \/ Help
    \/ Quit
    \/ ParseFailure
    \/ Unrecognized
    \/ EndOfInput

Spec == Init /\ [][Next]_vars

\* Sessions in which submit leaves the language to the file name and
\* nothing is resubmitted or compared.
SubmitInferred ==
    \E args \in InferredArgs, read \in ReadResults, mode \in {"edit", "fail"} :
        MainLoop("submit", None, Some(args), SubmitExecute(args, read, mode))

NextInferred ==
    \/ SubmitInferred
    \/ Rejudge
    \/ ListSubmissions
    \/ Show
    \/ ListProblems
    \/ Help
    \/ Quit
    \/ ParseFailure
    \/ Unrecognized
    \/ EndOfInput

SpecInferred == Init /\ [][NextInferred]_vars

(* ------------------------------- claims -------------------------------- *)

\* The length of the submission list before the last command ran.
LenBefore ==
    Len(graded_submissions)
        - (IF last.name \in {"submit", "resubmit"} /\ last.outcome = "ok"
           THEN 1 ELSE 0)

\* C1: the ids forwarded with the submissions appended to the list are
\* strictly increasing, and the first of them is 1.
C1_IdsIncreaseFromOne ==
    /\ \A i \in 1..(Len(graded_ids) - 1) : graded_ids[i] < graded_ids[i + 1]
    /\ graded_ids # <<>> => graded_ids[1] = 1

\* C2: the id that submit or resubmit forwards is the position of the record
\* it appended, and the record at that position holds the forwarded fields.
C2_ForwardedIdIsPosition ==
    (last.name \in {"submit", "resubmit"} /\ last.request # None) =>
        LET r == last.request[1]
        IN  /\ r[1] = Len(graded_submissions)
            /\ graded_submissions[r[1]] = <<r[2], r[3], r[4], r[5], r[6]>>

\* C3: a lookup of submission id k finds a record exactly when k is between
\* 1 and the length of the list; otherwise the command reports an error and
\* forwards nothing.
C3_LookupIffInRange ==
    (last.name \in {"resubmit", "rejudge", "diff", "show"} /\ last.arg # None) =>
        /\ (last.found # None) <=> (1 <= last.arg[1] /\ last.arg[1] <= LenBefore)
        /\ last.found = None => (last.outcome = "error" /\ last.request = None)

\* C4: the list is append-only and its records never change: no step makes
\* it shorter, and every position that exists before a step holds the same
\* record after it.
C4_AppendOnly ==
    [][/\ Len(graded_submissions') >= Len(graded_submissions)
       /\ \A k \in 1..Len(graded_submissions) :
              graded_submissions'[k] = graded_submissions[k]]_vars

\* A resubmit of submission 1 with an override has appended a record that
\* differs from its base, and the base is still at position 1.
C4_Witness ==
    /\ last.name = "resubmit" /\ last.outcome = "ok" /\ last.arg = Some(1)
    /\ Len(graded_submissions) = 2
    /\ graded_submissions[2] # last.found[1]
    /\ graded_submissions[1] = last.found[1]

\* C5: rejudge k with k in range forwards exactly the problem, language,
\* source, time limit and memory limit stored at position k.
C5_RejudgeForwardsStoredFields ==
    (/\ last.name = "rejudge" /\ last.arg # None
     /\ 1 <= last.arg[1] /\ last.arg[1] <= Len(graded_submissions)) =>
        /\ last.request # None
        /\ LET r == last.request[1]
           IN  <<r[2], r[3], r[4], r[5], r[6]>> = graded_submissions[last.arg[1]]

\* A rejudge has forwarded a stored record whose language has no executor.
C5_Witness ==
    /\ last.name = "rejudge" /\ last.arg # None /\ last.request # None
    /\ 1 <= last.arg[1] /\ last.arg[1] <= Len(graded_submissions)
    /\ graded_submissions[last.arg[1]][2] \notin executors

\* C6: a rejudge, in range or not, leaves the submission list and the
\* counter as they were.
C6_RejudgeIsPureResend ==
    [][last'.name = "rejudge" =>
           UNCHANGED <<graded_submissions, submission_id_counter>>]_vars

\* A rejudge has forwarded a request while the list holds two records.
C6_Witness ==
    /\ last.name = "rejudge" /\ last.request # None
    /\ Len(graded_submissions) = 2

\* C7: a submit or resubmit that ends in an error leaves the submission list
\* and the counter as they were and forwards nothing.
C7_FailureChangesNothing ==
    [][(last'.name \in {"submit", "resubmit"} /\ last'.outcome = "error") =>
           /\ UNCHANGED <<graded_submissions, submission_id_counter>>
           /\ last'.request = None]_vars

\* C8: the session loop ends only after quit or after end of input or an
\* interrupt at the prompt.
C8_OnlyQuitOrInterruptEnds ==
    pc = "exited" => last.name \in {"quit", "eof"}

\* C9: the judge is torn down whenever the loop has ended, and it is not
\* torn down while the loop is at the prompt.
C9_TeardownOnEveryExit ==
    /\ pc = "prompt" => murdered = 0
    /\ pc = "exited" => murdered >= 1

\* The loop has ended by an exception that left a command, after a
\* submission was graded, and the judge has been torn down.
C9_Witness ==
    /\ pc = "exited" /\ last.outcome = "raised" /\ murdered = 1
    /\ graded_submissions # <<>>

\* C10: submissions with a positive limit N on a list of more than N records
\* lists exactly the N most recent records, each with its own id; without a
\* limit it lists every record.
C10_ListsMostRecent ==
    (last.name = "submissions" /\ last.outcome = "ok") =>
        LET n == Len(graded_submissions)
            shown == {last.listing[i] : i \in 1..Len(last.listing)}
            Line(j) == <<j, graded_submissions[j][1], graded_submissions[j][2]>>
        IN  IF last.arg = None
            THEN shown = {Line(j) : j \in 1..n}
            ELSE n > last.arg[1] =>
                     /\ Len(last.listing) = last.arg[1]
                     /\ shown = {Line(j) : j \in (n - last.arg[1] + 1)..n}

\* C11: every record of the list has a positive time limit and a positive
\* memory limit.
C11_LimitsPositive ==
    \A i \in 1..Len(graded_submissions) :
        graded_submissions[i][4] > 0 /\ graded_submissions[i][5] > 0

\* C12: every record of the list has a language id of the executor catalog.
C12_LanguageHasExecutor ==
    \A i \in 1..Len(graded_submissions) : graded_submissions[i][2] \in executors

\* C13: submit with the language left blank and a source file name without
\* an extension prints an error, appends and forwards nothing, and the loop
\* goes back to the prompt.
C13_NoExtensionIsAnError ==
    (/\ last.name = "submit" /\ last.given # None
     /\ last.given[1][3] = BlankLanguage
     /\ last.given[1][2] # None
     /\ Len(SplitDot(last.given[1][2][1])) = 1) =>
        /\ last.outcome = "error"
        /\ last.err # None
        /\ last.request = None
        /\ Len(graded_submissions) = LenBefore
        /\ pc = "prompt"

\* C14: when the editor cannot be launched during submit or resubmit, the
\* loop goes back to the prompt.
C14_EditorFailureIsSoft ==
    (last.name \in {"submit", "resubmit"} /\ last.editor = "failed") =>
        pc = "prompt"

\* C15: a line whose first token is no command, and a line whose arguments
\* do not parse, leave the list and the counter as they were, forward
\* nothing, and are followed by a new prompt.
C15_BadLineChangesNothing ==
    [][last'.outcome \in {"parse", "unrecognized"} =>
           /\ UNCHANGED <<graded_submissions, submission_id_counter, graded_ids>>
           /\ last'.request = None
           /\ pc' = "prompt"]_vars

\* The arguments of a resubmit did not parse while the list held a record,
\* and the loop is at the prompt.
C15_Witness ==
    /\ last.name = "resubmit" /\ last.outcome = "parse"
    /\ graded_submissions # <<>>
    /\ pc = "prompt"

\* The language the extension of a file name stands for: the table
\* py -> PY2, cpp -> CPP14, java -> JAVA9 on the extension in any letter
\* case, and the upper-cased extension outside the table.
TableLanguage(ext) ==
    CASE Upper(ext) = <<"P", "Y">> -> <<"P", "Y", "2">>
      [] Upper(ext) = <<"C", "P", "P">> -> <<"C", "P", "P", "1", "4">>
      [] Upper(ext) = <<"J", "A", "V", "A">> -> <<"J", "A", "V", "A", "9">>
      [] OTHER -> Upper(ext)

\* The last command was a submit whose language is known: given with -lan,
\* or left to a file name with exactly one dot and something after it.
SubmitResolves ==
    /\ last.name = "submit" /\ last.given # None
    /\ \/ last.given[1][3] # BlankLanguage
       \/ /\ last.given[1][2] # None
          /\ Len(SplitDot(last.given[1][2][1])) = 2
          /\ SplitDot(last.given[1][2][1])[2] # <<>>

\* The language of such a submit.
SubmitLanguage ==
    IF last.given[1][3] # BlankLanguage THEN last.given[1][3]
    ELSE TableLanguage(SplitDot(last.given[1][2][1])[2])

\* The checks in the order problem, language, time limit, memory limit: the
\* message of the first that fails, None if all pass.
FirstFailure(problem, lang, tl, ml) ==
    CASE problem \notin supported_problems -> Some("unknown problem")
      [] problem \in supported_problems /\ lang \notin executors ->
             Some("unknown language")
      [] problem \in supported_problems /\ lang \in executors /\ tl <= 0 ->
             Some("--time-limit must be >= 0")
      [] problem \in supported_problems /\ lang \in executors /\ tl > 0 /\ ml <= 0 ->
             Some("--memory-limit must be >= 0")
      [] OTHER -> None

\* C16: submit and resubmit report the first failing check of the order
\* problem, language, time limit, memory limit, and skip none of them.
C16_FirstFailingCheckWins ==
    /\ SubmitResolves =>
           LET e == FirstFailure(last.given[1][1], SubmitLanguage,
                                 last.given[1][4], last.given[1][5])
           IN  e # None => (last.outcome = "error" /\ last.err = e)
    /\ (last.name = "resubmit" /\ last.given # None /\ last.found # None) =>
           LET o == last.given[1]
               base == last.found[1]
               e == FirstFailure(IF o[1] # None THEN o[1][1] ELSE base[1],
                                 IF o[2] # None THEN o[2][1] ELSE base[2],
                                 IF o[3] # None THEN o[3][1] ELSE base[4],
                                 IF o[4] # None THEN o[4][1] ELSE base[5])
           IN  e # None => (last.outcome = "error" /\ last.err = e)

\* C17: a resubmit given a time-limit or memory-limit override that is not
\* positive ends in an error and appends nothing.
C17_NonPositiveOverrideIsAnError ==
    (/\ last.name = "resubmit" /\ last.given # None
     /\ \/ last.given[1][3] # None /\ last.given[1][3][1] <= 0
        \/ last.given[1][4] # None /\ last.given[1][4][1] <= 0) =>
        /\ last.outcome = "error"
        /\ Len(graded_submissions) = LenBefore

\* C18: a successful resubmit of submission k appends one record whose
\* problem, language and limits are the overrides where given and the base
\* record's values elsewhere, and whose source is what the editor returned.
C18_ResubmitAppliesOverrides ==
    (/\ last.name = "resubmit" /\ last.outcome = "ok"
     /\ 1 <= last.arg[1] /\ last.arg[1] <= LenBefore) =>
        LET o == last.given[1]
            base == graded_submissions[last.arg[1]]
            new == graded_submissions[LenBefore + 1]
        IN  /\ new[1] = (IF o[1] # None THEN o[1][1] ELSE base[1])
            /\ new[2] = (IF o[2] # None THEN o[2][1] ELSE base[2])
            /\ new[4] = (IF o[3] # None THEN o[3][1] ELSE base[4])
            /\ new[5] = (IF o[4] # None THEN o[4][1] ELSE base[5])
            /\ last.editor = "returned"
            /\ new[3] \in {base[3], "pass"}

\* The last command was a submit that left the language blank, named a
\* supported problem and a file with exactly one dot and something after
\* it: the cases in which the language is inferred.
SubmitInfers ==
    /\ last.name = "submit" /\ last.given # None
    /\ last.given[1][1] \in supported_problems
    /\ last.given[1][3] = BlankLanguage
    /\ last.given[1][2] # None
    /\ Len(SplitDot(last.given[1][2][1])) = 2
    /\ SplitDot(last.given[1][2][1])[2] # <<>>

\* The request of a submit with an inferred language, for the language
\* `lang`: the new id, the problem, lang, the text read from the file, the
\* limits of the arguments and the flags (false, false); the same record is
\* the last of the list.
InferredDispatch(lang) ==
    \/ /\ last.outcome = "error" /\ last.err = Some("str(io)")
       /\ last.request = None
    \/ /\ last.outcome = "ok"
       /\ last.request # None
       /\ last.request[1][1] = submission_id_counter
       /\ last.request[1][2] = last.given[1][1]
       /\ last.request[1][3] = lang
       /\ last.request[1][4] \in {r[1] : r \in ReadResults \ {None}}
       /\ last.request[1][5] = last.given[1][4]
       /\ last.request[1][6] = last.given[1][5]
       /\ last.request[1][7] = FALSE /\ last.request[1][8] = FALSE
       /\ Len(graded_submissions) = LenBefore + 1
       /\ graded_submissions[Len(graded_submissions)]
              = <<last.request[1][2], last.request[1][3], last.request[1][4],
                  last.request[1][5], last.request[1][6]>>

\* The table py -> PY2, cpp -> CPP14, java -> JAVA9 on the extension as
\* written, and the extension itself outside the table.
VerbatimLanguage(ext) ==
    CASE ext = <<"p", "y">> -> <<"P", "Y", "2">>
      [] ext = <<"c", "p", "p">> -> <<"C", "P", "P", "1", "4">>
      [] ext = <<"j", "a", "v", "a">> -> <<"J", "A", "V", "A", "9">>
      [] OTHER -> ext

C20_RejudgeForwardsCounter ==
    (last.name = "rejudge" /\ last.arg # None) =>
        /\ last.request # None =>
               last.request[1][1] = submission_id_counter
        /\ (1 <= last.arg[1] /\ last.arg[1] <= Len(graded_submissions)) =>
               last.request
                   = Some(Request(submission_id_counter,
                                  graded_submissions[last.arg[1]]))
        /\ graded_submissions = <<>> =>
               (last.request = None /\ last.outcome = "error")

\* rejudge k forwarded the fields of submission k under an id other than k.
C20_Witness ==
    /\ last.name = "rejudge" /\ last.arg # None /\ last.outcome = "ok"
    /\ 1 <= last.arg[1] /\ last.arg[1] <= Len(graded_submissions)
    /\ last.arg[1] # submission_id_counter
    /\ last.request[1][1] = submission_id_counter

====
